---- MODULE Spec2Model ----
(***************************************************************************)
(* Model of cartodb_services/here/bulk_geocoder.py (HereMapsBulkGeocoder   *)
(* and HereMapsBulkGeocoderV7, whose method bodies are identical) and of   *)
(* cartodb_services/mapzen/routing.py (MapzenRouting).                     *)
(*                                                                         *)
(* The sources are Python 3 (io.StringIO is handed to csv.writer), and the *)
(* library calls are modelled by what they do under Python 3:              *)
(*   - str.encode("utf-8") yields bytes, which csv.writer writes as their  *)
(*     repr, b'...';                                                       *)
(*   - ZipFile.open(name) is a binary stream, and csv.DictReader raises    *)
(*     _csv.Error on the first line it reads from a binary stream.         *)
(* Python values: None is PyNone, a str is a TLA+ string, a list is a      *)
(* sequence, a dict of metadata is a record with its key set.              *)
(***************************************************************************)
EXTENDS Integers, Sequences, FiniteSets, TLC

PyNone == "<None>"

(***************************************************************************)
(* Class constants of HereMapsBulkGeocoder (the same in ...V7).            *)
(***************************************************************************)
MIN_BATCHED_SEARCH == 100
MAX_STALLED_RETRIES == 100
BATCH_RETRY_SLEEP_S == 5

\* the same constant of HereMapsBulkGeocoderV7
V7_MIN_BATCHED_SEARCH == 100

\* a final-state list that lost one entry
JOB_FINAL_STATES_NoDeleted == {"completed", "cancelled", "failed"}

\* a final-state list with a state too many
JOB_FINAL_STATES_WithRunning ==
    {"running", "completed", "cancelled", "deleted", "failed"}

JOB_FINAL_STATES == {"completed", "cancelled", "deleted", "failed"}

(***************************************************************************)
(* Bounds of the model.                                                    *)
(***************************************************************************)
\* a call of _should_use_batch has 0..MaxSearches searches
MaxSearches == 102
\* processed_count values the provider may report: 0..MaxCount
MaxCount == 103
\* a batch call has 1..MaxBatch searches
MaxBatch == 2
\* a serial call has 0..MaxSerial searches
MaxSerial == 3
\* the counter of status queries stops counting at CountCap
CountCap == 2
\* the total count of the job of a provider whose counts never decrease
TotalCount == 3

(***************************************************************************)
(* The searches handed to one call: namedtuples (id, address, city, state, *)
(* country).                                                               *)
(***************************************************************************)
Search(id, address, city, state, country) ==
    [id |-> id, address |-> address, city |-> city, state |-> state,
     country |-> country]

SearchOf(id) ==
    IF id = 1 THEN Search(1, "Calle Mayor 1", "Madrid", PyNone, "ES")
    ELSE IF id = 2 THEN Search(2, "", "Boston", "MA", PyNone)
    ELSE Search(id, PyNone, PyNone, PyNone, "")

RECURSIVE SearchesUpTo(_)
SearchesUpTo(n) == IF n = 0 THEN <<>> ELSE Append(SearchesUpTo(n - 1), SearchOf(n))

\* the search lists of the calls of the model
BatchSearchLists == {SearchesUpTo(n) : n \in 1..MaxBatch}

SerialSearchLists == {SearchesUpTo(n) : n \in 0..MaxSerial}

DecideSearchLists == {SearchesUpTo(n) : n \in 0..MaxSearches}

(***************************************************************************)
(* _searches_to_csv: the header row, then one row of three fields per      *)
(* search. The document is kept as its rows of fields (the '|' delimiter   *)
(* and the line ends of csv.writer are not modelled).                      *)
(***************************************************************************)
\* Python truthiness of an optional str
Truthy(s) == s # PyNone /\ s # ""

\* filter(None, fields)
RECURSIVE FilterNone(_)
FilterNone(fields) ==
    IF fields = <<>> THEN <<>>
    ELSE IF Truthy(Head(fields)) THEN <<Head(fields)>> \o FilterNone(Tail(fields))
    ELSE FilterNone(Tail(fields))

\* ', '.join(parts)
RECURSIVE Join(_)
Join(parts) ==
    IF parts = <<>> THEN ""
    ELSE IF Len(parts) = 1 THEN parts[1]
    ELSE parts[1] \o ", " \o Join(Tail(parts))

\* what csv.writer writes for the bytes s.encode("utf-8"): their repr
\* (plain ASCII text without quotes, as all the texts of the model are)
BytesRepr(s) == "b'" \o s \o "'"

\* s.encode("utf-8") if s else '', as written by csv.writer
CsvField(s) == IF Truthy(s) THEN BytesRepr(s) ELSE ""

CsvHeader == <<"recId", "searchText", "country">>

CsvRow(search) ==
    LET fields == <<search.address, search.city, search.state>>
        search_text == Join(FilterNone(fields))
    IN  <<CsvField(ToString(search.id)), CsvField(search_text),
          CsvField(search.country)>>

SearchesToCsv(ss) == <<CsvHeader>> \o [i \in 1..Len(ss) |-> CsvRow(ss[i])]

(***************************************************************************)
(* The results archive and _download_results.                              *)
(*                                                                         *)
(* An archive is the ZIP of the download reply: a sequence of files. A     *)
(* file has a name, kept as <<stem, suffix>>, and the lines of its text: a *)
(* header line (or none) and the rows under it, each row the dict that     *)
(* csv.DictReader would build from it.                                     *)
(***************************************************************************)
OUT_SUFFIX == "_out.txt"

File(stem, suffix, header, rows) ==
    [name |-> <<stem, suffix>>, header |-> header, rows |-> rows]

\* name.endswith('_out.txt')
EndsWithOut(name) == name[2] = OUT_SUFFIX

\* the number of lines ZipFile.open(name) yields
LineCount(file) == (IF file.header THEN 1 ELSE 0) + Len(file.rows)

Row(recId, seq, level, type, relevance, lon, lat) ==
    [recId |-> recId, SeqNumber |-> seq, matchLevel |-> level,
     matchType |-> type, relevance |-> relevance,
     displayLongitude |-> lon, displayLatitude |-> lat]

\* The value of a step that may raise: the exception raised ("" when none)
\* and the list built so far.
Ok(list) == [err |-> "", list |-> list]
Err(what) == [err |-> what, list |-> <<>>]

\* csv.DictReader(root_zip.open(name), delimiter='|') iterated to its end:
\* the stream is binary, so the first line read raises _csv.Error ("iterator
\* should return strings, not bytes"); a file of no line yields no row.
CSV_ERROR == "_csv.Error"

DictReaderRows(file) == IF LineCount(file) > 0 THEN Err(CSV_ERROR) ELSE Ok(<<>>)

\* the lookup tables of HereMapsGeocoder and the helpers of
\* cartodb_services.geocoder that the row branch uses
PRECISION_PRECISE == "precise"
PRECISION_INTERPOLATED == "interpolated"

PrecisionByMatchType(type) ==
    IF type = "pointAddress" THEN PRECISION_PRECISE ELSE PRECISION_INTERPOLATED

MatchTypeByMatchLevel(level) ==
    CASE level = "houseNumber" -> "street_number"
      [] level = "street" -> "street"
      [] level = "city" -> "locality"
      [] OTHER -> PyNone

EmptyMeta ==
    [keys |-> {}, error |-> "", relevance |-> "", precision |-> "",
     match_types |-> <<>>]

ErrorMeta(message) == [EmptyMeta EXCEPT !.keys = {"error"}, !.error = message]

GeocoderMetadata(relevance, precision, match_types) ==
    [keys |-> {"relevance", "precision", "match_types"}, error |-> "",
     relevance |-> relevance, precision |-> precision,
     match_types |-> match_types]

\* float(text) raises ValueError on these
NotAFloat(text) == text \in {"", "n/a"}

VALUE_ERROR == "ValueError"
TYPE_ERROR == "TypeError"

\* the exception float(text) raises ("" when it raises none): TypeError on
\* None, which is what csv.DictReader gives for a field a short row lacks,
\* and ValueError on a str that is no number
FloatError(text) ==
    IF text = PyNone THEN TYPE_ERROR
    ELSE IF NotAFloat(text) THEN VALUE_ERROR
    ELSE ""

\* the body of "for row in reader": the results the row appends (none or
\* one), or the exception it raises
RowResults(row) ==
    IF row.SeqNumber = "1" THEN
        IF FloatError(row.relevance) # "" THEN Err(FloatError(row.relevance))
        ELSE LET precision == PrecisionByMatchType(row.matchType)
                 match_type == MatchTypeByMatchLevel(row.matchLevel)
             IN  Ok(<< <<row.recId,
                         <<row.displayLongitude, row.displayLatitude>>,
                         GeocoderMetadata(row.relevance, precision,
                             IF match_type # PyNone THEN <<match_type>>
                             ELSE <<>>)>> >>)
    ELSE IF row.matchLevel = "NOMATCH"
        THEN Ok(<< <<row.recId, <<>>, EmptyMeta>> >>)
    ELSE IF row.matchLevel = "FAILED"
        THEN Ok(<< <<row.recId, <<>>, ErrorMeta("Bulk geocoder failed")>> >>)
    ELSE Ok(<<>>)

\* results extended by the rows, in order, until one raises
RECURSIVE RowsResults(_, _)
RowsResults(results, rows) ==
    IF rows = <<>> THEN Ok(results)
    ELSE LET r == RowResults(Head(rows))
         IN  IF r.err # "" THEN r
             ELSE RowsResults(results \o r.list, Tail(rows))

\* the loop over root_zip.namelist()
RECURSIVE FilesResults(_, _)
FilesResults(results, files) ==
    IF files = <<>> THEN Ok(results)
    ELSE IF ~EndsWithOut(Head(files).name) THEN FilesResults(results, Tail(files))
    ELSE LET rows == DictReaderRows(Head(files))
         IN  IF rows.err # "" THEN rows
             ELSE LET now == RowsResults(results, rows.list)
                  IN  IF now.err # "" THEN now
                      ELSE FilesResults(now.list, Tail(files))

BAD_ZIP == "zipfile.BadZipFile"

\* the reply to the submit POST: its status code and what its body holds
SubmitResponse(code, body) == [status_code |-> code, body |-> body]

NoResponse == SubmitResponse(0, "")

\* how a call ended: by a return of `results`, or by the exception `kind`,
\* which may carry a response (ServiceException) or name a job
Returned(results) ==
    [kind |-> "return", response |-> NoResponse, job |-> "", results |-> results]
Raised(what, response, job) ==
    [kind |-> what, response |-> response, job |-> job, results |-> <<>>]
NoOutcome ==
    [kind |-> "none", response |-> NoResponse, job |-> "", results |-> <<>>]

\* _download_results on the download reply `archive`
DownloadResults(archive) ==
    IF ~archive.zip THEN Raised(BAD_ZIP, NoResponse, "")
    ELSE LET r == FilesResults(<<>>, archive.files)
         IN  IF r.err # "" THEN Raised(r.err, NoResponse, "") ELSE Returned(r.list)

(***************************************************************************)
(* What the provider may answer.                                           *)
(***************************************************************************)
SubmitResponses ==
    {SubmitResponse(200, "request_id"), SubmitResponse(200, "no_request_id"),
     SubmitResponse(200, "not_xml"), SubmitResponse(400, "error"),
     SubmitResponse(500, "error")}

REQUEST_ID == "job-1"

\* the statuses of the provider's job-status document, and one it does not
\* document
Statuses ==
    {"accepted", "running", "completed", "cancelled", "deleted", "failed",
     "Completed"}

\* the reply to a status GET: a document _job_status can parse (xml), or not
StatusReply(xml, status, processed) ==
    [xml |-> xml, status |-> status, processed_count |-> processed]

\* The loop reads processed_count only to compare it with last_processed and
\* to store it, so the counts a reply may hold are, with `before` the count
\* of the reply before it: the same, one more, one less, 0, 5 and the
\* largest.
CountChoices(before) ==
    {0, 5, before - 1, before, before + 1, MaxCount} \cap (0..MaxCount)

StatusReplies(before) ==
    {StatusReply(TRUE, st, c) : st \in Statuses, c \in CountChoices(before)}
        \cup {StatusReply(FALSE, "", 0)}

NoJobInfo == StatusReply(FALSE, "none", 0)

\* the replies of a provider whose processed_count never decreases and
\* never exceeds the total count of the job
MonotoneReplies(before) ==
    {StatusReply(TRUE, st, c) : st \in Statuses, c \in before..TotalCount}

\* the rows a provider that echoes the submitted document answers with: one
\* row per submitted record, first candidate, matched at house-number level
EchoRows(doc) ==
    [i \in 1..(Len(doc) - 1) |->
        Row(doc[i + 1][1], "1", "houseNumber", "pointAddress", "0.9",
            "-3." \o ToString(i), "40." \o ToString(i))]

Archive(zip, files) == [zip |-> zip, files |-> files]

NoArchive == Archive(FALSE, <<>>)

OutFile(header, rows) == File("result_20", OUT_SUFFIX, header, rows)

\* the archive of the echoing provider
EchoArchive(doc) == Archive(TRUE, <<OutFile(TRUE, EchoRows(doc))>>)

\* the download replies to a batch call that submitted `doc`: no ZIP, a ZIP
\* of no file, one whose results file is empty, and the echo
BatchArchives(doc) ==
    {Archive(FALSE, <<>>), Archive(TRUE, <<>>),
     Archive(TRUE, <<OutFile(FALSE, <<>>)>>), EchoArchive(doc)}

(***************************************************************************)
(* The state of one call of _batch_geocode.                                *)
(***************************************************************************)
VARIABLES
    pc,               \* where the call is
    searches,         \* its argument
    payload,          \* the document handed to _send_batch
    submit_response,  \* the reply to the submit POST
    request_id,       \* the job id _send_batch returned
    last_processed,   \* local of the poll loop
    stalled_retries,  \* local of the poll loop
    job_info,         \* local of the poll loop: the last status parsed
    archive,          \* the reply to the download GET
    outcome,          \* how the call ended
    event,            \* the last thing the call did: "submit", "status",
                      \* "sleep" or "download" ("none" before the first)
    n_submit,         \* submit POSTs issued
    n_status,         \* status GETs issued, counted up to CountCap
    n_download,       \* download GETs issued
    sleep_s,          \* the argument of the last time.sleep (0 before it)
    request,          \* the last request handed to self.session
    script_pos,       \* status GETs answered so far when they all were
                      \* the replies of OnScript (-1 once one was not)
    rising            \* status GETs answered so far when each reported a
                      \* larger count than the one before (-1 otherwise)

\* the count the previous status reply reported; before the first reply,
\* the 0 that last_processed starts from
PreviousCount == IF job_info = NoJobInfo THEN 0 ELSE job_info.processed_count

batch_vars ==
    <<pc, searches, payload, submit_response, request_id, last_processed,
      stalled_retries, job_info, archive, outcome, event, n_submit, n_status,
      n_download, sleep_s, request, script_pos, rising>>

(***************************************************************************)
(* The state of one call of _serial_geocode (its argument is `searches`)   *)
(* and of one call of MapzenRouting.calculate_route_point_to_point.        *)
(***************************************************************************)
VARIABLES
    serial_pc,        \* where the call of _serial_geocode is
    results,          \* its local `results`
    replies,          \* what geocode_meta did for each search so far
    route_pc,         \* where the call of calculate_route_point_to_point is
    waypoints,        \* its arguments
    mode,
    options,
    route_request,    \* the parameters of the GET it issued
    route_response,   \* the reply to the GET
    route_outcome,    \* how the call ended
    n_get             \* GETs issued

serial_vars == <<serial_pc, results, replies>>

route_vars ==
    <<route_pc, waypoints, mode, options, route_request, route_response,
      route_outcome, n_get>>

(***************************************************************************)
(* The state of one call of _should_use_batch (its argument is `searches`) *)
(* on a geocoder of one of the two classes.                                *)
(***************************************************************************)
VARIABLES
    decide_pc,        \* where the call of _should_use_batch is
    variant,          \* the class of the geocoder
    should_use_batch  \* what the call returned (FALSE before it returns)

decide_vars == <<decide_pc, variant, should_use_batch>>

(***************************************************************************)
(* The state of one call of _batch_geocode on a HereMapsBulkGeocoderV7,    *)
(* which is given the searches and the replies of the call above.          *)
(***************************************************************************)
VARIABLES
    v7_pc,               \* where the call is
    v7_payload,          \* the document handed to _send_batch
    v7_request_id,       \* the job id _send_batch returned
    v7_last_processed,   \* local of the poll loop
    v7_stalled_retries,  \* local of the poll loop
    v7_job_info,         \* local of the poll loop
    v7_outcome,          \* how the call ended
    v7_event,            \* the last thing the call did
    v7_sleep_s,          \* the argument of the last time.sleep
    v7_request,          \* the last request handed to self.session
    v7_seen              \* the state of the other call when this one took
                         \* its last step

v7_vars ==
    <<v7_pc, v7_payload, v7_request_id, v7_last_processed, v7_stalled_retries,
      v7_job_info, v7_outcome, v7_event, v7_sleep_s, v7_request, v7_seen>>

vars == <<batch_vars, serial_vars, route_vars, decide_vars, v7_vars>>

(***************************************************************************)
(* The requests a HereMapsBulkGeocoder hands to its session. A request is  *)
(* its method, its URL (the base URL and the path segments put after it),  *)
(* its params (a dict, kept as the set of its items) and its data.         *)
(***************************************************************************)
BATCH_URL == "https://batch.geocoder.api.here.com/6.2/jobs"

META_COLS ==
    <<"relevance", "matchType", "matchCode", "matchLevel", "matchQualityStreet">>

\* the credentials the geocoder was built with
APP_ID == "an-app-id"
APP_CODE == "an-app-code"

CredentialsParams == {<<"app_id", APP_ID>>, <<"app_code", APP_CODE>>}

\* ','.join(parts)
RECURSIVE JoinComma(_)
JoinComma(parts) ==
    IF parts = <<>> THEN ""
    ELSE IF Len(parts) = 1 THEN parts[1]
    ELSE parts[1] \o "," \o JoinComma(Tail(parts))

\* dict.update: the items of more replace those of dict with their keys
UpdateParams(dict, more) ==
    {it \in dict : \A m \in more : m[1] # it[1]} \cup more

BatchRequest(method, url, params, data) ==
    [method |-> method, url |-> url, params |-> params, data |-> data]

NoBatchRequest == BatchRequest("none", <<>>, {}, <<>>)

\* lines 93-108: the POST of _send_batch
SendBatchRequest(data) ==
    LET cols == "displayLatitude,displayLongitude," \o JoinComma(META_COLS)
    IN  BatchRequest("POST", <<BATCH_URL>>,
            UpdateParams(CredentialsParams,
                {<<"gen", 8>>, <<"action", "run">>, <<"header", "true">>,
                 <<"inDelim", "|">>, <<"outDelim", "|">>, <<"outCols", cols>>,
                 <<"outputcombined", "true">>}),
            data)

\* lines 117-121: the GET of _job_status
JobStatusRequest(id) ==
    BatchRequest("GET", <<BATCH_URL, id>>,
        UpdateParams(CredentialsParams, {<<"action", "status">>}), <<>>)

\* lines 129-131: the GET of _download_results
DownloadRequest(job_id) ==
    BatchRequest("GET", <<BATCH_URL, job_id, "all">>, CredentialsParams, <<>>)

\* the state before the call does anything
BatchStart(at) ==
    /\ pc = at
    /\ payload = <<>>
    /\ submit_response = NoResponse
    /\ request_id = PyNone
    /\ last_processed = 0
    /\ stalled_retries = 0
    /\ job_info = NoJobInfo
    /\ archive = NoArchive
    /\ outcome = NoOutcome
    /\ event = "none"
    /\ n_submit = 0
    /\ n_status = 0
    /\ n_download = 0
    /\ sleep_s = 0
    /\ request = NoBatchRequest
    /\ script_pos = 0
    /\ rising = 0

BatchInit ==
    /\ searches \in BatchSearchLists
    /\ BatchStart("send_batch")

(***************************************************************************)
(* _batch_geocode, one action per request it issues.                       *)
(***************************************************************************)
SERVICE_EXCEPTION == "ServiceException"
PARSE_ERROR == "xml.etree.ElementTree.ParseError"
ATTRIBUTE_ERROR == "AttributeError"
STALL_ERROR == "Exception: Too many retries for job"

\* the status check left out
SendBatchResult_AnyStatus(response) ==
    IF response.body = "not_xml" THEN Raised(PARSE_ERROR, NoResponse, "")
    ELSE IF response.body = "no_request_id"
        THEN Raised(ATTRIBUTE_ERROR, NoResponse, "")
    ELSE Returned(<<REQUEST_ID>>)

\* _send_batch on the reply `response`: the request id, or the exception
SendBatchResult(response) ==
    IF response.status_code = 200 THEN
        IF response.body = "not_xml" THEN Raised(PARSE_ERROR, NoResponse, "")
        ELSE IF response.body = "no_request_id"
            THEN Raised(ATTRIBUTE_ERROR, NoResponse, "")
        ELSE Returned(<<REQUEST_ID>>)
    ELSE Raised(SERVICE_EXCEPTION, response, "")

\* request_id = self._send_batch(self._searches_to_csv(searches));
\* last_processed = 0; stalled_retries = 0
BatchSend(response) ==
    /\ pc = "send_batch"
    /\ payload' = SearchesToCsv(searches)
    /\ request' = SendBatchRequest(payload')
    /\ submit_response' = response
    /\ event' = "submit"
    /\ n_submit' = n_submit + 1
    /\ LET r == SendBatchResult(response)
       IN  IF r.kind = "return"
           THEN /\ request_id' = r.results[1]
                /\ pc' = "job_status"
                /\ outcome' = outcome
           ELSE /\ request_id' = request_id
                /\ pc' = "raised"
                /\ outcome' = r
    /\ last_processed' = 0
    /\ stalled_retries' = 0
    /\ UNCHANGED <<searches, job_info, archive, n_status, n_download,
                   sleep_s, script_pos, rising>>
    /\ UNCHANGED <<serial_vars, route_vars, decide_vars, v7_vars>>

\* a stall count that is never reset
StallStep_NoReset(last, stalled, count) ==
    IF count = last
    THEN [last_processed |-> last, stalled_retries |-> stalled + 1,
          raise |-> stalled + 1 > MAX_STALLED_RETRIES]
    ELSE [last_processed |-> count, stalled_retries |-> stalled, raise |-> FALSE]

\* the comparison of the counts inverted
StallStep_Inverted(last, stalled, count) ==
    IF count # last
    THEN [last_processed |-> last, stalled_retries |-> stalled + 1,
          raise |-> stalled + 1 > MAX_STALLED_RETRIES]
    ELSE [last_processed |-> count, stalled_retries |-> 0, raise |-> FALSE]

\* the ceiling reached one stall too early
StallStep_OffByOne(last, stalled, count) ==
    IF count = last
    THEN [last_processed |-> last, stalled_retries |-> stalled + 1,
          raise |-> stalled + 1 >= MAX_STALLED_RETRIES]
    ELSE [last_processed |-> count, stalled_retries |-> 0, raise |-> FALSE]

\* a stall counter that starts again from 0 at the ceiling
StallStep_Wraps(last, stalled, count) ==
    IF count = last
    THEN [last_processed |-> last,
          stalled_retries |-> (stalled + 1) % (MAX_STALLED_RETRIES + 1),
          raise |-> FALSE]
    ELSE [last_processed |-> count, stalled_retries |-> 0, raise |-> FALSE]

\* lines 61-67: the stall bookkeeping of one turn of the loop
StallStep(last, stalled, count) ==
    IF count = last
    THEN [last_processed |-> last, stalled_retries |-> stalled + 1,
          raise |-> stalled + 1 > MAX_STALLED_RETRIES]
    ELSE [last_processed |-> count, stalled_retries |-> 0, raise |-> FALSE]

\* the scripted replies: the k-th one is "running" with count 5 for
\* k <= MAX_STALLED_RETRIES + 1, and "completed" with count 5 for the next k
OnScript(k, reply) ==
    /\ reply.xml
    /\ reply.processed_count = 5
    /\ \/ k <= MAX_STALLED_RETRIES + 1 /\ reply.status = "running"
       \/ k = MAX_STALLED_RETRIES + 2 /\ reply.status = "completed"

\* one turn of the loop: job_info = self._job_status(request_id), the stall
\* bookkeeping, and the test of the status
BatchPoll(reply) ==
    /\ pc = "job_status"
    /\ request' = JobStatusRequest(request_id)
    /\ event' = "status"
    /\ n_status' = IF n_status < CountCap THEN n_status + 1 ELSE n_status
    /\ script_pos' = IF script_pos >= 0 /\ OnScript(script_pos + 1, reply)
                     THEN script_pos + 1 ELSE -1
    /\ rising' = IF /\ rising >= 0
                    /\ reply.xml
                    /\ \/ job_info = NoJobInfo
                       \/ reply.processed_count > job_info.processed_count
                 THEN rising + 1 ELSE -1
    /\ IF ~reply.xml
       THEN /\ pc' = "raised"
            /\ outcome' = Raised(PARSE_ERROR, NoResponse, "")
            /\ UNCHANGED <<job_info, last_processed, stalled_retries>>
       ELSE LET step == StallStep(last_processed, stalled_retries,
                                  reply.processed_count)
            IN  /\ job_info' = reply
                /\ last_processed' = step.last_processed
                /\ stalled_retries' = step.stalled_retries
                /\ IF step.raise
                   THEN /\ pc' = "raised"
                        /\ outcome' = Raised(STALL_ERROR, NoResponse, request_id)
                   ELSE /\ pc' = IF reply.status \in JOB_FINAL_STATES
                                 THEN "download_results" ELSE "sleep"
                        /\ outcome' = outcome
    /\ UNCHANGED <<searches, payload, submit_response, request_id, archive,
                   n_submit, n_download, sleep_s>>
    /\ UNCHANGED <<serial_vars, route_vars, decide_vars, v7_vars>>

\* the loop going round without its sleep
BatchSleep_NoSleep ==
    /\ pc = "sleep"
    /\ pc' = "job_status"
    /\ UNCHANGED <<searches, payload, submit_response, request_id,
                   last_processed, stalled_retries, job_info, archive, outcome,
                   event, n_submit, n_status, n_download, sleep_s, request,
                   script_pos, rising>>
    /\ UNCHANGED <<serial_vars, route_vars, decide_vars, v7_vars>>

\* time.sleep(self.BATCH_RETRY_SLEEP_S)
BatchSleep ==
    /\ pc = "sleep"
    /\ pc' = "job_status"
    /\ event' = "sleep"
    /\ sleep_s' = BATCH_RETRY_SLEEP_S
    /\ UNCHANGED <<searches, payload, submit_response, request_id,
                   last_processed, stalled_retries, job_info, archive, outcome,
                   n_submit, n_status, n_download, request, script_pos, rising>>
    /\ UNCHANGED <<serial_vars, route_vars, decide_vars, v7_vars>>

\* results = self._download_results(request_id); return results
BatchDownload(reply) ==
    /\ pc = "download_results"
    /\ request' = DownloadRequest(request_id)
    /\ archive' = reply
    /\ event' = "download"
    /\ n_download' = n_download + 1
    /\ outcome' = DownloadResults(reply)
    /\ pc' = IF outcome'.kind = "return" THEN "returned" ELSE "raised"
    /\ UNCHANGED <<searches, payload, submit_response, request_id,
                   last_processed, stalled_retries, job_info, n_submit,
                   n_status, sleep_s, script_pos, rising>>
    /\ UNCHANGED <<serial_vars, route_vars, decide_vars, v7_vars>>

(***************************************************************************)
(* HereMapsBulkGeocoderV7: its class constants, its requests, and its      *)
(* _batch_geocode with the methods it calls, one action per request.       *)
(***************************************************************************)
V7_BATCH_URL == "https://batch.geocoder.ls.hereapi.com/6.2/jobs"

V7_META_COLS ==
    <<"relevance", "matchType", "matchCode", "matchLevel", "matchQualityStreet">>

V7_MAX_STALLED_RETRIES == 100
V7_BATCH_RETRY_SLEEP_S == 5
V7_JOB_FINAL_STATES == {"completed", "cancelled", "deleted", "failed"}

\* the credential the geocoder was built with
APIKEY == "an-api-key"

V7CredentialsParams == {<<"apikey", APIKEY>>}

\* lines 232-246: the POST of _send_batch
V7SendBatchRequest(data) ==
    LET cols == "displayLatitude,displayLongitude," \o JoinComma(V7_META_COLS)
    IN  BatchRequest("POST", <<V7_BATCH_URL>>,
            UpdateParams(V7CredentialsParams,
                {<<"gen", 8>>, <<"action", "run">>, <<"header", "true">>,
                 <<"inDelim", "|">>, <<"outDelim", "|">>, <<"outCols", cols>>,
                 <<"outputcombined", "true">>}),
            data)

\* lines 255-259: the GET of _job_status
V7JobStatusRequest(id) ==
    BatchRequest("GET", <<V7_BATCH_URL, id>>,
        UpdateParams(V7CredentialsParams, {<<"action", "status">>}), <<>>)

\* lines 267-269: the GET of _download_results
V7DownloadRequest(job_id) ==
    BatchRequest("GET", <<V7_BATCH_URL, job_id, "all">>, V7CredentialsParams,
                 <<>>)

\* _searches_to_csv
V7CsvRow(search) ==
    LET fields == <<search.address, search.city, search.state>>
        search_text == Join(FilterNone(fields))
    IN  <<CsvField(ToString(search.id)), CsvField(search_text),
          CsvField(search.country)>>

V7SearchesToCsv(ss) ==
    <<<<"recId", "searchText", "country">>>>
        \o [i \in 1..Len(ss) |-> V7CsvRow(ss[i])]

\* _send_batch on the reply `response`
V7SendBatchResult(response) ==
    IF response.status_code = 200 THEN
        IF response.body = "not_xml" THEN Raised(PARSE_ERROR, NoResponse, "")
        ELSE IF response.body = "no_request_id"
            THEN Raised(ATTRIBUTE_ERROR, NoResponse, "")
        ELSE Returned(<<REQUEST_ID>>)
    ELSE Raised(SERVICE_EXCEPTION, response, "")

\* the ceiling reached one stall too early
V7StallStep_AtCeiling(last, stalled, count) ==
    IF count = last
    THEN [last_processed |-> last, stalled_retries |-> stalled + 1,
          raise |-> stalled + 1 >= V7_MAX_STALLED_RETRIES]
    ELSE [last_processed |-> count, stalled_retries |-> 0, raise |-> FALSE]

\* lines 200-206: the stall bookkeeping of one turn of the loop
V7StallStep(last, stalled, count) ==
    IF count = last
    THEN [last_processed |-> last, stalled_retries |-> stalled + 1,
          raise |-> stalled + 1 > V7_MAX_STALLED_RETRIES]
    ELSE [last_processed |-> count, stalled_retries |-> 0, raise |-> FALSE]

\* the body of "for row in reader" of _download_results
V7RowResults(row) ==
    IF row.SeqNumber = "1" THEN
        IF FloatError(row.relevance) # "" THEN Err(FloatError(row.relevance))
        ELSE LET precision == PrecisionByMatchType(row.matchType)
                 match_type == MatchTypeByMatchLevel(row.matchLevel)
             IN  Ok(<< <<row.recId,
                         <<row.displayLongitude, row.displayLatitude>>,
                         GeocoderMetadata(row.relevance, precision,
                             IF match_type # PyNone THEN <<match_type>>
                             ELSE <<>>)>> >>)
    ELSE IF row.matchLevel = "NOMATCH"
        THEN Ok(<< <<row.recId, <<>>, EmptyMeta>> >>)
    ELSE IF row.matchLevel = "FAILED"
        THEN Ok(<< <<row.recId, <<>>, ErrorMeta("Bulk geocoder failed")>> >>)
    ELSE Ok(<<>>)

RECURSIVE V7RowsResults(_, _)
V7RowsResults(rs, rows) ==
    IF rows = <<>> THEN Ok(rs)
    ELSE LET r == V7RowResults(Head(rows))
         IN  IF r.err # "" THEN r
             ELSE V7RowsResults(rs \o r.list, Tail(rows))

\* the loop over root_zip.namelist() of _download_results
RECURSIVE V7FilesResults(_, _)
V7FilesResults(rs, files) ==
    IF files = <<>> THEN Ok(rs)
    ELSE IF ~EndsWithOut(Head(files).name) THEN V7FilesResults(rs, Tail(files))
    ELSE LET rows == DictReaderRows(Head(files))
         IN  IF rows.err # "" THEN rows
             ELSE LET now == V7RowsResults(rs, rows.list)
                  IN  IF now.err # "" THEN now
                      ELSE V7FilesResults(now.list, Tail(files))

\* _download_results on the download reply
V7DownloadResults(reply) ==
    IF ~reply.zip THEN Raised(BAD_ZIP, NoResponse, "")
    ELSE LET r == V7FilesResults(<<>>, reply.files)
         IN  IF r.err # "" THEN Raised(r.err, NoResponse, "") ELSE Returned(r.list)

\* the state before the call does anything
V7Start(at) ==
    /\ v7_pc = at
    /\ v7_payload = <<>>
    /\ v7_request_id = PyNone
    /\ v7_last_processed = 0
    /\ v7_stalled_retries = 0
    /\ v7_job_info = NoJobInfo
    /\ v7_outcome = NoOutcome
    /\ v7_event = "none"
    /\ v7_sleep_s = 0
    /\ v7_request = NoBatchRequest
    /\ v7_seen = batch_vars

V7Idle == V7Start("idle")

V7Init == V7Start("send_batch")

\* request_id = self._send_batch(self._searches_to_csv(searches));
\* last_processed = 0; stalled_retries = 0
V7Send(response) ==
    /\ v7_pc = "send_batch"
    /\ v7_payload' = V7SearchesToCsv(searches)
    /\ v7_request' = V7SendBatchRequest(v7_payload')
    /\ v7_event' = "submit"
    /\ LET r == V7SendBatchResult(response)
       IN  IF r.kind = "return"
           THEN /\ v7_request_id' = r.results[1]
                /\ v7_pc' = "job_status"
                /\ v7_outcome' = v7_outcome
           ELSE /\ v7_request_id' = v7_request_id
                /\ v7_pc' = "raised"
                /\ v7_outcome' = r
    /\ v7_last_processed' = 0
    /\ v7_stalled_retries' = 0
    /\ v7_seen' = batch_vars
    /\ UNCHANGED <<v7_job_info, v7_sleep_s>>
    /\ UNCHANGED <<batch_vars, serial_vars, route_vars, decide_vars>>

\* one turn of the loop
V7Poll(reply) ==
    /\ v7_pc = "job_status"
    /\ v7_request' = V7JobStatusRequest(v7_request_id)
    /\ v7_event' = "status"
    /\ IF ~reply.xml
       THEN /\ v7_pc' = "raised"
            /\ v7_outcome' = Raised(PARSE_ERROR, NoResponse, "")
            /\ UNCHANGED <<v7_job_info, v7_last_processed, v7_stalled_retries>>
       ELSE LET step == V7StallStep(v7_last_processed, v7_stalled_retries,
                                    reply.processed_count)
            IN  /\ v7_job_info' = reply
                /\ v7_last_processed' = step.last_processed
                /\ v7_stalled_retries' = step.stalled_retries
                /\ IF step.raise
                   THEN /\ v7_pc' = "raised"
                        /\ v7_outcome' =
                            Raised(STALL_ERROR, NoResponse, v7_request_id)
                   ELSE /\ v7_pc' = IF reply.status \in V7_JOB_FINAL_STATES
                                    THEN "download_results" ELSE "sleep"
                        /\ v7_outcome' = v7_outcome
    /\ v7_seen' = batch_vars
    /\ UNCHANGED <<v7_payload, v7_request_id, v7_sleep_s>>
    /\ UNCHANGED <<batch_vars, serial_vars, route_vars, decide_vars>>

\* time.sleep(self.BATCH_RETRY_SLEEP_S)
V7Sleep ==
    /\ v7_pc = "sleep"
    /\ v7_pc' = "job_status"
    /\ v7_event' = "sleep"
    /\ v7_sleep_s' = V7_BATCH_RETRY_SLEEP_S
    /\ v7_seen' = batch_vars
    /\ UNCHANGED <<v7_payload, v7_request_id, v7_last_processed,
                   v7_stalled_retries, v7_job_info, v7_outcome, v7_request>>
    /\ UNCHANGED <<batch_vars, serial_vars, route_vars, decide_vars>>

\* results = self._download_results(request_id); return results
V7Download(reply) ==
    /\ v7_pc = "download_results"
    /\ v7_request' = V7DownloadRequest(v7_request_id)
    /\ v7_event' = "download"
    /\ v7_outcome' = V7DownloadResults(reply)
    /\ v7_pc' = IF v7_outcome'.kind = "return" THEN "returned" ELSE "raised"
    /\ v7_seen' = batch_vars
    /\ UNCHANGED <<v7_payload, v7_request_id, v7_last_processed,
                   v7_stalled_retries, v7_job_info, v7_sleep_s>>
    /\ UNCHANGED <<batch_vars, serial_vars, route_vars, decide_vars>>

(***************************************************************************)
(* _serial_geocode, one action per search.                                 *)
(***************************************************************************)
\* what self.geocode_meta(...) does for one search: it returns the pair
\* [coordinates, metadata], or it raises
GeocodeReply(raises, coords, meta) ==
    [raises |-> raises, coords |-> coords, meta |-> meta]

GeocodeReplies ==
    {GeocodeReply("", <<"-3.7", "40.4">>,
         GeocoderMetadata("1.0", PRECISION_PRECISE, <<"street_number">>)),
     GeocodeReply("", <<>>, EmptyMeta),
     GeocodeReply("", <<>>, ErrorMeta("Bad request")),
     GeocodeReply("requests.ConnectionError", <<>>, EmptyMeta),
     GeocodeReply("MalformedResult", <<>>, EmptyMeta)}

\* geocoder_error_response(message) of cartodb_services.geocoder
GeocoderErrorResponse(message) == <<<<>>, ErrorMeta(message)>>

\* an exception of geocode_meta that is not caught
SerialItem_Uncaught(search, reply) ==
    IF reply.raises # "" THEN Err(reply.raises)
    ELSE Ok(<< <<search.id, reply.coords, reply.meta>> >>)

\* lines 44-50, the body of the loop: what it appends to results
SerialItem(search, reply) ==
    LET result == IF reply.raises # ""
                  THEN GeocoderErrorResponse("Error geocoding")
                  ELSE <<reply.coords, reply.meta>>
    IN  Ok(<< <<search.id, result[1], result[2]>> >>)

SerialIdle ==
    /\ serial_pc = "idle"
    /\ results = <<>>
    /\ replies = <<>>

SerialInit ==
    /\ serial_pc = "loop"
    /\ results = <<>>
    /\ replies = <<>>

\* one turn of "for search in searches"
SerialGeocode(reply) ==
    /\ serial_pc = "loop"
    /\ Len(replies) < Len(searches)
    /\ replies' = Append(replies, reply)
    /\ LET item == SerialItem(searches[Len(replies) + 1], reply)
       IN  IF item.err # ""
           THEN serial_pc' = "raised" /\ results' = results
           ELSE serial_pc' = serial_pc /\ results' = results \o item.list
    /\ UNCHANGED <<batch_vars, route_vars, decide_vars, v7_vars>>

\* return results
SerialReturn ==
    /\ serial_pc = "loop"
    /\ Len(replies) = Len(searches)
    /\ serial_pc' = "returned"
    /\ UNCHANGED <<results, replies, batch_vars, route_vars, decide_vars,
                   v7_vars>>

(***************************************************************************)
(* MapzenRouting.calculate_route_point_to_point. RouteGet and RouteReply   *)
(* are one run of the body of the method (lines 48-76). The method is      *)
(* decorated with qps_retry (line 47), whose code is not in the files of   *)
(* the module: the decorator is handed the ServiceException of line 76,    *)
(* which carries the response, and what it does with it is left open       *)
(* between its two possible ends, running the body again and raising to    *)
(* the caller.                                                             *)
(***************************************************************************)
\* bounds of the routing calls
MaxWaypoints == 4
MaxOptions == 2
\* the runs of the body in one call
MaxGets == 3

ACCEPTED_MODES ==
    [walk |-> "pedestrian", car |-> "auto", public_transport |-> "bus",
     bicycle |-> "bicycle"]

AUTO_SHORTEST == "auto_shortest"

METRICS_UNITS == "kilometers"

Modes == {"walk", "car", "public_transport", "bicycle", "auto", "plane"}

\* the option strings of the model, and option.split('=') of each
OptionStrings == {"mode_type=shortest", "mode_type=fastest", "shortest", "a=b=c"}

SplitEq(option) ==
    CASE option = "mode_type=shortest" -> <<"mode_type", "shortest">>
      [] option = "mode_type=fastest" -> <<"mode_type", "fastest">>
      [] option = "shortest" -> <<"shortest">>
      [] option = "a=b=c" -> <<"a", "b", "c">>

RECURSIVE SeqsUpTo(_, _)
SeqsUpTo(S, n) ==
    IF n = 0 THEN {<<>>}
    ELSE SeqsUpTo(S, n - 1)
            \cup {Append(q, x) : q \in {p \in SeqsUpTo(S, n - 1) : Len(p) = n - 1},
                                 x \in S}

OptionLists == SeqsUpTo(OptionStrings, MaxOptions)

\* Coordinate(longitude, latitude) of the i-th waypoint
Waypoint(i) == [longitude |-> i - 4, latitude |-> 40 + i]

WaypointLists == {[i \in 1..n |-> Waypoint(i)] : n \in 1..MaxWaypoints}

\* a dict is kept as the list of its (key, value) items
HasKey(dict, key) == \E i \in 1..Len(dict) : dict[i][1] = key

Get(dict, key) ==
    dict[CHOOSE i \in 1..Len(dict) :
            /\ dict[i][1] = key
            /\ \A j \in (i + 1)..Len(dict) : dict[j][1] # key][2]

\* dict.update of one item: a later value of a key replaces the earlier one
Update(dict, item) == SelectSeq(dict, LAMBDA it : it[1] # item[1]) \o <<item>>

\* __parse_options: dict(option.split('=') for option in options); dict()
\* raises ValueError on an element that is not a pair
RECURSIVE ParseOptionsFrom(_, _)
ParseOptionsFrom(dict, opts) ==
    IF opts = <<>> THEN Ok(dict)
    ELSE LET parts == SplitEq(Head(opts))
         IN  IF Len(parts) # 2 THEN Err(VALUE_ERROR)
             ELSE ParseOptionsFrom(Update(dict, parts), Tail(opts))

ParseOptions(opts) == ParseOptionsFrom(<<>>, opts)

WRONG_PARAMS == "WrongParams"

\* the test of the mode left out
ParseModeParam_Unchecked(m, parsed_options) ==
    IF /\ m = ACCEPTED_MODES["car"]
       /\ HasKey(parsed_options, "mode_type")
       /\ Get(parsed_options, "mode_type") = "shortest"
    THEN Ok(<<AUTO_SHORTEST>>)
    ELSE Ok(<<m>>)

\* __parse_mode_param: the mode it returns, as Ok(<<mode>>), or WrongParams
ParseModeParam(m, parsed_options) ==
    IF m \notin DOMAIN ACCEPTED_MODES THEN Err(WRONG_PARAMS)
    ELSE IF /\ m = ACCEPTED_MODES["car"]
            /\ HasKey(parsed_options, "mode_type")
            /\ Get(parsed_options, "mode_type") = "shortest"
        THEN Ok(<<AUTO_SHORTEST>>)
    ELSE Ok(<<m>>)

\* every waypoint marked as a stop
ParseDirections_AllBreak(points) ==
    [locations |->
        [idx \in 1..Len(points) |->
            [lon |-> ToString(points[idx].longitude),
             lat |-> ToString(points[idx].latitude),
             type |-> "break"]]]

\* __parse_directions
ParseDirections(points) ==
    [locations |->
        [idx \in 1..Len(points) |->
            [lon |-> ToString(points[idx].longitude),
             lat |-> ToString(points[idx].latitude),
             type |-> IF idx = 1 \/ idx = Len(points)
                      THEN "break" ELSE "through"]]]

KEY_ERROR == "KeyError"

\* __parse_json_parameters: the document before json.dumps, or the KeyError
\* of ACCEPTED_MODES[mode]
ParseJsonParameters(directions, m, units) ==
    IF m \notin DOMAIN ACCEPTED_MODES THEN Err(KEY_ERROR)
    ELSE Ok(<<[locations |-> directions.locations,
               costing |-> ACCEPTED_MODES[m],
               directions_options |-> [units |-> units, narrative |-> FALSE]]>>)

\* lines 50-56: the parameters of the GET, or the exception raised before it
RouteRequestParams(points, m, opts, units) ==
    LET parsed_options == ParseOptions(opts)
    IN  IF parsed_options.err # "" THEN parsed_options
        ELSE LET mode_param == ParseModeParam(m, parsed_options.list)
             IN  IF mode_param.err # "" THEN mode_param
                 ELSE ParseJsonParameters(ParseDirections(points),
                                          mode_param.list[1], units)

\* the body of a reply: whether it is JSON, what it holds under 'trip' (a
\* dict, null, or no such key) and under 'legs' of the trip (a list of a
\* leg, an empty list, or no such key), and which of the keys the first leg
\* and its summary hold
RouteBody(json, trip, legs, shape, summary, length, time) ==
    [json |-> json, trip |-> trip, legs |-> legs, shape |-> shape,
     summary |-> summary, length |-> length, time |-> time]

GoodBody == RouteBody(TRUE, "dict", "list", TRUE, TRUE, TRUE, TRUE)

RouteBodies ==
    {[GoodBody EXCEPT !.json = FALSE]}
        \cup {RouteBody(TRUE, trip, legs, shape, summary, length, time) :
                trip \in {"dict", "null", "absent"},
                legs \in {"list", "empty", "absent"},
                shape \in BOOLEAN, summary \in BOOLEAN,
                length \in BOOLEAN, time \in BOOLEAN}

RouteResponse(code, body) == [status_code |-> code, body |-> body]

RouteResponses ==
    {RouteResponse(200, b) : b \in RouteBodies}
        \cup {RouteResponse(c, [GoodBody EXCEPT !.json = FALSE]) :
                c \in {400, 404, 429, 500}}

NoRouteResponse == RouteResponse(0, GoodBody)

\* what the call returns: a MapzenRoutingResponse(shape, length, duration),
\* or the [] of line 115
MapzenRoutingResponse(shape, length, duration) ==
    [type |-> "MapzenRoutingResponse", shape |-> shape, length |-> length,
     duration |-> duration]

EmptyList == [type |-> "list", shape |-> PyNone, length |-> PyNone,
              duration |-> PyNone]

RouteReturned(value) == [kind |-> "return", value |-> value]
RouteRaised(what) == [kind |-> what, value |-> EmptyList]
NoRouteOutcome == [kind |-> "none", value |-> EmptyList]

JSON_ERROR == "json.JSONDecodeError"
MALFORMED_RESULT == "MalformedResult"

\* a KeyError caught with the IndexError
ParseRoutingResponse_KeyErrorAsEmpty(body) ==
    IF ~body.json THEN RouteRaised(JSON_ERROR)
    ELSE IF body.trip = "absent" THEN RouteReturned(EmptyList)
    ELSE IF body.trip = "null" THEN RouteRaised(TYPE_ERROR)
    ELSE IF body.legs = "absent" THEN RouteReturned(EmptyList)
    ELSE IF body.legs = "empty" THEN RouteReturned(EmptyList)
    ELSE IF ~(body.shape /\ body.summary /\ body.length /\ body.time)
        THEN RouteReturned(EmptyList)
    ELSE RouteReturned(MapzenRoutingResponse("shape", "length", "time"))

\* __parse_routing_response
ParseRoutingResponse(body) ==
    IF ~body.json THEN RouteRaised(JSON_ERROR)
    ELSE IF body.trip = "absent" THEN RouteRaised(MALFORMED_RESULT)
    ELSE IF body.trip = "null" THEN RouteRaised(TYPE_ERROR)
    ELSE IF body.legs = "absent" THEN RouteRaised(MALFORMED_RESULT)
    ELSE IF body.legs = "empty" THEN RouteReturned(EmptyList)
    ELSE IF ~body.shape THEN RouteRaised(MALFORMED_RESULT)
    ELSE IF ~body.summary THEN RouteRaised(MALFORMED_RESULT)
    ELSE IF ~body.length THEN RouteRaised(MALFORMED_RESULT)
    ELSE IF ~body.time THEN RouteRaised(MALFORMED_RESULT)
    ELSE RouteReturned(MapzenRoutingResponse("shape", "length", "time"))

\* every status 4xx taken for the bad request
RouteResult_AnyClientError(response) ==
    IF response.status_code = 200 THEN ParseRoutingResponse(response.body)
    ELSE IF response.status_code \in 400..499
        THEN RouteReturned(MapzenRoutingResponse(PyNone, PyNone, PyNone))
    ELSE RouteRaised(SERVICE_EXCEPTION)

\* lines 63-76
RouteResult(response) ==
    IF response.status_code = 200 THEN ParseRoutingResponse(response.body)
    ELSE IF response.status_code = 400
        THEN RouteReturned(MapzenRoutingResponse(PyNone, PyNone, PyNone))
    ELSE RouteRaised(SERVICE_EXCEPTION)

NoRequest ==
    [locations |-> <<>>, costing |-> "",
     directions_options |-> [units |-> "", narrative |-> FALSE]]

RouteIdle ==
    /\ route_pc = "idle"
    /\ waypoints = <<>>
    /\ mode = ""
    /\ options = <<>>
    /\ route_request = NoRequest
    /\ route_response = NoRouteResponse
    /\ route_outcome = NoRouteOutcome
    /\ n_get = 0

RouteInit ==
    /\ route_pc = "start"
    /\ waypoints \in WaypointLists
    /\ mode \in Modes
    /\ options \in OptionLists
    /\ route_request = NoRequest
    /\ route_response = NoRouteResponse
    /\ route_outcome = NoRouteOutcome
    /\ n_get = 0

\* lines 50-61: the parameters are built and the GET is issued
RouteGet ==
    /\ route_pc = "start"
    /\ LET params == RouteRequestParams(waypoints, mode, options, METRICS_UNITS)
       IN  IF params.err # ""
           THEN /\ route_pc' = "raised"
                /\ route_outcome' = RouteRaised(params.err)
                /\ UNCHANGED <<route_request, n_get>>
           ELSE /\ route_pc' = "get"
                /\ route_request' = params.list[1]
                /\ n_get' = n_get + 1
                /\ route_outcome' = route_outcome
    /\ UNCHANGED <<waypoints, mode, options, route_response>>
    /\ UNCHANGED <<batch_vars, serial_vars, decide_vars, v7_vars>>

\* lines 62-76: the reply is turned into the result of this run of the
\* body. What the body returns is what the call returns; an exception
\* without a response (of the parsing of the body) ends the call; the
\* ServiceException of line 76, which carries the response, is raised to
\* the qps_retry decorator.
RouteReply(response) ==
    /\ route_pc = "get"
    /\ route_response' = response
    /\ route_outcome' = RouteResult(response)
    /\ route_pc' = IF route_outcome'.kind = "return" THEN "returned"
                   ELSE IF route_outcome'.kind = SERVICE_EXCEPTION
                       THEN "qps_retry"
                   ELSE "raised"
    /\ UNCHANGED <<waypoints, mode, options, route_request, n_get>>
    /\ UNCHANGED <<batch_vars, serial_vars, decide_vars, v7_vars>>

\* what the decorator may raise to the caller: the ServiceException it was
\* handed, or an exception of its own
QPS_RETRY_ERROR == "exception of qps_retry"

QpsRetryRaises == {SERVICE_EXCEPTION, QPS_RETRY_ERROR}

\* line 47: the decorator runs the body again, with the arguments of the
\* call
QpsRetryCall ==
    /\ route_pc = "qps_retry"
    /\ n_get < MaxGets
    /\ route_pc' = "start"
    /\ UNCHANGED <<waypoints, mode, options, route_request, route_response,
                   route_outcome, n_get>>
    /\ UNCHANGED <<batch_vars, serial_vars, decide_vars, v7_vars>>

\* line 47: the decorator ends the call by an exception
QpsRetryRaise(what) ==
    /\ route_pc = "qps_retry"
    /\ route_pc' = "raised"
    /\ route_outcome' = RouteRaised(what)
    /\ UNCHANGED <<waypoints, mode, options, route_request, route_response,
                   n_get>>
    /\ UNCHANGED <<batch_vars, serial_vars, decide_vars, v7_vars>>

(***************************************************************************)
(* _should_use_batch of the two classes.                                   *)
(***************************************************************************)
HERE == "HereMapsBulkGeocoder"
HERE_V7 == "HereMapsBulkGeocoderV7"

\* a threshold that a list of its very length does not reach
ShouldUseBatch_Above(ss) == Len(ss) > MIN_BATCHED_SEARCH

\* HereMapsBulkGeocoder._should_use_batch
ShouldUseBatch(ss) == Len(ss) >= MIN_BATCHED_SEARCH

\* HereMapsBulkGeocoderV7._should_use_batch
ShouldUseBatchV7(ss) == Len(ss) >= V7_MIN_BATCHED_SEARCH

DecideIdle ==
    /\ decide_pc = "idle"
    /\ variant = HERE
    /\ should_use_batch = FALSE

DecideInit ==
    /\ decide_pc = "start"
    /\ variant \in {HERE, HERE_V7}
    /\ should_use_batch = FALSE

\* the call on a HereMapsBulkGeocoder
DecideHere ==
    /\ decide_pc = "start"
    /\ variant = HERE
    /\ should_use_batch' = ShouldUseBatch(searches)
    /\ decide_pc' = "returned"
    /\ UNCHANGED <<variant, batch_vars, serial_vars, route_vars, v7_vars>>

\* the call on a HereMapsBulkGeocoderV7
DecideV7 ==
    /\ decide_pc = "start"
    /\ variant = HERE_V7
    /\ should_use_batch' = ShouldUseBatchV7(searches)
    /\ decide_pc' = "returned"
    /\ UNCHANGED <<variant, batch_vars, serial_vars, route_vars, v7_vars>>

(***************************************************************************)
(* The specifications: one call of _batch_geocode (Spec; SpecFair and       *)
(* SpecMonotone with fairness), one call of _download_results on its own   *)
(* (SpecDownload), one call of _serial_geocode (SpecSerial), one routing   *)
(* call (SpecRoute), one call of _should_use_batch (SpecDecide), one call   *)
(* of _batch_geocode on each of the two classes (SpecTwin).                *)
(***************************************************************************)
Init == BatchInit /\ SerialIdle /\ RouteIdle /\ DecideIdle /\ V7Idle

Next ==
    \/ \E response \in SubmitResponses : BatchSend(response)
    \/ \E reply \in StatusReplies(PreviousCount) : BatchPoll(reply)
    \/ BatchSleep
    \/ \E reply \in BatchArchives(payload) : BatchDownload(reply)

Spec == Init /\ [][Next]_vars

\* the rows of the results files of SpecDownload
DownloadRows ==
    {Row(id, seq, level, "pointAddress", relevance, "-3.7", "40.4") :
        id \in {"b'1'", "b'2'"}, seq \in {"0", "1", "2"},
        level \in {"NOMATCH", "FAILED", "houseNumber", "unknown"},
        relevance \in {"0.9", "", PyNone}}

\* the download replies of SpecDownload: those of a batch call, a results
\* file of one row, of two rows of one record, and a file of another name
\* beside an empty results file
DownloadArchives ==
    BatchArchives(<<CsvHeader>>)
        \cup {Archive(TRUE, <<OutFile(TRUE, <<>>)>>)}
        \cup {Archive(TRUE, <<OutFile(TRUE, <<r>>)>>) : r \in DownloadRows}
        \cup {Archive(TRUE, <<OutFile(TRUE, <<r, q>>)>>) :
                r \in {x \in DownloadRows : x.recId = "b'1'" /\ x.SeqNumber = "1"},
                q \in {x \in DownloadRows : x.recId = "b'1'" /\ x.SeqNumber = "2"}}
        \cup {Archive(TRUE, <<File("result_20", "_inv.txt", TRUE, <<r>>),
                              OutFile(FALSE, <<>>)>>) : r \in DownloadRows}

InitDownload ==
    /\ searches = <<>>
    /\ BatchStart("download_results")
    /\ SerialIdle
    /\ RouteIdle
    /\ DecideIdle
    /\ V7Idle

NextDownload == \E reply \in DownloadArchives : BatchDownload(reply)

SpecDownload == InitDownload /\ [][NextDownload]_vars

InitSerial ==
    /\ searches \in SerialSearchLists
    /\ BatchStart("idle")
    /\ SerialInit
    /\ RouteIdle
    /\ DecideIdle
    /\ V7Idle

NextSerial ==
    \/ \E reply \in GeocodeReplies : SerialGeocode(reply)
    \/ SerialReturn

SpecSerial == InitSerial /\ [][NextSerial]_vars

InitRoute ==
    /\ searches = <<>>
    /\ BatchStart("idle")
    /\ SerialIdle
    /\ RouteInit
    /\ DecideIdle
    /\ V7Idle

NextRoute ==
    \/ RouteGet
    \/ \E response \in RouteResponses : RouteReply(response)
    \/ QpsRetryCall
    \/ \E what \in QpsRetryRaises : QpsRetryRaise(what)

SpecRoute == InitRoute /\ [][NextRoute]_vars

\* One call of _batch_geocode that goes on as long as it can: the call is
\* sequential code whose requests return (they have connect and read
\* timeouts) and whose sleep ends, so a step that can be taken is taken.
\* SpecFair is the call with any provider, SpecMonotone the call with a
\* provider whose counts never decrease and never exceed the total.
SpecFair == Spec /\ WF_vars(Next)

NextMonotone ==
    \/ \E response \in SubmitResponses : BatchSend(response)
    \/ \E reply \in MonotoneReplies(PreviousCount) : BatchPoll(reply)
    \/ BatchSleep
    \/ \E reply \in BatchArchives(payload) : BatchDownload(reply)

SpecMonotone == Init /\ [][NextMonotone]_vars /\ WF_vars(NextMonotone)

\* One call of _batch_geocode on a geocoder of each class, with the same
\* searches and the same replies: the HereMapsBulkGeocoder takes a step,
\* then the HereMapsBulkGeocoderV7 takes its step with the reply the
\* other one got.
TwinReplies ==
    {StatusReply(TRUE, st, c) : st \in Statuses, c \in 0..TotalCount}
        \cup {StatusReply(FALSE, "", 0)}

\* the V7 call has caught up with the other call
InStep == v7_seen = batch_vars

\* the reply to the last status GET of the other call
LastStatusReply ==
    IF outcome.kind = PARSE_ERROR THEN StatusReply(FALSE, "", 0) ELSE job_info

InitTwin == BatchInit /\ SerialIdle /\ RouteIdle /\ DecideIdle /\ V7Init

NextTwin ==
    \/ InStep /\ \E response \in SubmitResponses : BatchSend(response)
    \/ InStep /\ \E reply \in TwinReplies : BatchPoll(reply)
    \/ InStep /\ BatchSleep
    \/ InStep /\ \E reply \in BatchArchives(payload) : BatchDownload(reply)
    \/ ~InStep /\ event = "submit" /\ V7Send(submit_response)
    \/ ~InStep /\ event = "status" /\ V7Poll(LastStatusReply)
    \/ ~InStep /\ event = "sleep" /\ V7Sleep
    \/ ~InStep /\ event = "download" /\ V7Download(archive)

SpecTwin == InitTwin /\ [][NextTwin]_vars

\* one call of _should_use_batch
InitDecide ==
    /\ searches \in DecideSearchLists
    /\ BatchStart("idle")
    /\ SerialIdle
    /\ RouteIdle
    /\ DecideInit
    /\ V7Idle

NextDecide == DecideHere \/ DecideV7

SpecDecide == InitDecide /\ [][NextDecide]_vars

(***************************************************************************)
(* The claims about the poll loop of _batch_geocode (under Spec).          *)
(***************************************************************************)
\* the four terminal states, as the specification lists them
FourFinalStates == {"completed", "cancelled", "deleted", "failed"}

\* a status GET was answered in this step
StatusStep == event' = "status"

\* ... and _job_status could parse the answer, which job_info' then holds
ParsedStatusStep == StatusStep /\ outcome'.kind # PARSE_ERROR

\* C1, as claimed: after MAX_STALLED_RETRIES + 1 = 101 replies "running"
\* with count 5 the call has failed with the stall error, so that no reply
\* "completed" is ever seen.
C1_FailsBeforeCompleted ==
    /\ script_pos = MAX_STALLED_RETRIES + 1
        => pc = "raised" /\ outcome.kind = STALL_ERROR
    /\ script_pos # MAX_STALLED_RETRIES + 2

\* C1, amended: on the script the call goes on through the 101 replies
\* "running" (they count 100 stalls, the first one moving the count from 0
\* to 5), and it fails with the stall error on the 102nd reply, the one
\* that says "completed"; no download is issued.
C1_FailsOnCompletedReply ==
    /\ script_pos \in 1..(MAX_STALLED_RETRIES + 1)
        => /\ pc = "sleep" \/ pc = "job_status"
           /\ stalled_retries = script_pos - 1
           /\ outcome = NoOutcome
           /\ n_download = 0
    /\ script_pos = MAX_STALLED_RETRIES + 2
        => /\ pc = "raised"
           /\ outcome = Raised(STALL_ERROR, NoResponse, request_id)
           /\ job_info.status = "completed"
           /\ n_download = 0

C1_Witness ==
    /\ script_pos = MAX_STALLED_RETRIES + 2
    /\ pc = "raised"
    /\ outcome.kind = STALL_ERROR

\* C2, as claimed: after a status reply with one of the four terminal
\* states the loop has ended without raising and the download is next,
\* whatever the counts are.
C2_TerminalAlwaysDownloads ==
    (event = "status" /\ job_info.status \in FourFinalStates)
        => pc = "download_results" /\ outcome = NoOutcome

\* C2, amended: a status reply with one of the four terminal states ends
\* the loop without raising and the download is issued next, unless that
\* reply repeats the count when the stall counter already is at the
\* ceiling: then the stall error is raised and there is no download.
C2_TerminalDownloadsUnlessStalled ==
    /\ [][(StatusStep /\ job_info'.status \in FourFinalStates)
            => IF /\ job_info'.processed_count = PreviousCount
                  /\ stalled_retries >= MAX_STALLED_RETRIES
               THEN pc' = "raised" /\ outcome'.kind = STALL_ERROR
               ELSE pc' = "download_results" /\ outcome' = NoOutcome]_vars
    /\ [][pc = "download_results"
            => event' = "download" /\ n_download' = n_download + 1]_vars

C2_Witness ==
    /\ pc = "download_results"
    /\ job_info.status = "deleted"
    /\ stalled_retries = MAX_STALLED_RETRIES

\* C3, as claimed: a poll increments the stall counter exactly when its
\* count equals the count of the previous poll, and resets it and records
\* the count otherwise; the first poll never increments it.
C3_FirstPollNeverStalls ==
    [][ParsedStatusStep
        => IF job_info # NoJobInfo
              /\ job_info'.processed_count = job_info.processed_count
           THEN stalled_retries' = stalled_retries + 1
           ELSE /\ stalled_retries' = 0
                /\ last_processed' = job_info'.processed_count]_vars

\* C3, amended: a poll increments the stall counter exactly when its count
\* equals the count of the previous poll or, at the first poll, equals 0
\* (a first reply of count 0 is a stall); otherwise it resets the counter
\* and records the count.
C3_StallIffCountUnchanged ==
    [][ParsedStatusStep
        => IF job_info'.processed_count = PreviousCount
           THEN /\ stalled_retries' = stalled_retries + 1
                /\ last_processed' = last_processed
           ELSE /\ stalled_retries' = 0
                /\ last_processed' = job_info'.processed_count]_vars

C3_Witness ==
    /\ event = "status"
    /\ n_status = 1
    /\ job_info.processed_count = 0
    /\ stalled_retries = 1

\* C4: no status GET follows a status reply with one of the four terminal
\* states; the download is issued at most once, and only right after such
\* a reply; after a reply with any other status the call sleeps (or has
\* raised), it never downloads.
C4_TerminalStatesEndPolling ==
    /\ [][StatusStep => job_info.status \notin FourFinalStates]_vars
    /\ [](n_download <= 1)
    /\ [][n_download' # n_download
            => /\ event = "status"
               /\ job_info.status \in FourFinalStates
               /\ n_download' = n_download + 1]_vars
    /\ []((event = "status" /\ job_info.status \notin FourFinalStates)
            => pc = "sleep" \/ pc = "raised")

C4_Witness ==
    /\ n_download = 1
    /\ job_info.status = "cancelled"
    /\ n_status = CountCap

\* C9: a submit reply of a status other than 200 ends the call with a
\* ServiceException that carries the reply, after one submit and with no
\* status GET, no download and no result; the stall error, too, ends the
\* call with no download and no result.
C9_SubmitFailureIsFatal ==
    /\ (n_submit > 0 /\ submit_response.status_code # 200)
        => /\ pc = "raised"
           /\ outcome = Raised(SERVICE_EXCEPTION, submit_response, "")
           /\ n_submit = 1
           /\ n_status = 0
           /\ n_download = 0
    /\ outcome.kind = STALL_ERROR
        => /\ pc = "raised"
           /\ outcome.results = <<>>
           /\ n_download = 0
    /\ n_submit <= 1

C9_Witness ==
    /\ pc = "raised"
    /\ submit_response.status_code = 500
    /\ outcome.kind = SERVICE_EXCEPTION

\* C10: while every status reply reports a larger count than the one
\* before it, the stall counter stays under the ceiling and the stall error
\* is not raised, and a reply "completed" ends the loop with the download
\* next.
C10_RisingCountsNeverStall ==
    rising >= 1
        => /\ stalled_retries <= MAX_STALLED_RETRIES
           /\ outcome.kind # STALL_ERROR
           /\ (event = "status" /\ job_info.status = "completed")
                => pc = "download_results"

\* a rising run longer than the ceiling that ended with "completed"
C10_Witness ==
    /\ rising >= MAX_STALLED_RETRIES + 2
    /\ job_info.status = "completed"
    /\ pc = "download_results"

\* the call slept in this step
SleepStep == event' = "sleep"

\* C14: the first status GET follows the submit with no sleep before it;
\* every later status GET follows a sleep, and a sleep follows nothing but
\* a status GET and lasts BATCH_RETRY_SLEEP_S = 5 seconds, so that exactly
\* one sleep of 5 seconds lies between two consecutive status GETs; there
\* is no sleep after a status reply with a terminal state nor after the
\* stall error.
C14_OneSleepBetweenPolls ==
    /\ [][StatusStep
            => IF n_status = 0 THEN event = "submit" /\ sleep_s = 0
               ELSE event = "sleep"]_vars
    /\ [][SleepStep
            => /\ event = "status"
               /\ job_info.status \notin FourFinalStates
               /\ outcome = NoOutcome
               /\ sleep_s' = BATCH_RETRY_SLEEP_S
               /\ sleep_s' = 5]_vars
    /\ []((event = "status"
            /\ (job_info.status \in FourFinalStates
                    \/ outcome.kind = STALL_ERROR))
            => pc # "sleep")
    /\ [](sleep_s \in {0, BATCH_RETRY_SLEEP_S})

\* two status GETs with the sleep between them, the second one answered
\* with a terminal state
C14_Witness ==
    /\ n_status = CountCap
    /\ event = "status"
    /\ sleep_s = BATCH_RETRY_SLEEP_S
    /\ job_info.status = "failed"
    /\ pc = "download_results"

\* the call is neither before its submit nor in its poll loop
LoopEnded == pc \notin {"send_batch", "job_status", "sleep"}

\* every call leaves its poll loop (it does under SpecMonotone; under
\* SpecFair a provider that keeps changing the count keeps it polling)
PollLoopEnds == <>LoopEnded

\* C20 (under SpecMonotone): with a provider whose counts never decrease
\* and never exceed the total count, every call leaves its poll loop after
\* finitely many status GETs; it leaves it in no other way than by a reply
\* with a terminal state, the download being next, or by the stall error,
\* which is its exit when the job never reaches a terminal state.
C20_MonotoneCountsEndThePolling ==
    /\ <>LoopEnded
    /\ [][(StatusStep /\ LoopEnded')
            => \/ /\ pc' = "download_results"
                  /\ job_info'.status \in FourFinalStates
               \/ /\ pc' = "raised"
                  /\ outcome'.kind = STALL_ERROR
                  /\ stalled_retries' = MAX_STALLED_RETRIES + 1]_vars
    /\ [][(StatusStep /\ ~LoopEnded')
            => /\ pc' = "sleep"
               /\ job_info'.status \notin FourFinalStates
               /\ job_info'.processed_count >= PreviousCount
               /\ stalled_retries' <= MAX_STALLED_RETRIES]_vars

\* a job that got to its total count, never reached a terminal state, and
\* ended by the stall error
C20_Witness ==
    /\ pc = "raised"
    /\ outcome.kind = STALL_ERROR
    /\ job_info.status = "running"
    /\ last_processed = TotalCount

\* the ids of the searches, as the text csv.writer is given for them
RECURSIVE IdsOf(_)
IdsOf(ss) ==
    IF ss = <<>> THEN <<>> ELSE <<ToString(Head(ss).id)>> \o IdsOf(Tail(ss))

\* C7, as claimed: when the job completed and the results file holds one
\* first-candidate row per submitted record, the call returns one result
\* per search, under the ids of the searches, each with the longitude and
\* latitude of its row.
C7_OneResultPerSearch ==
    (n_download = 1 /\ job_info.status = "completed"
        /\ archive = EchoArchive(payload))
        => /\ outcome.kind = "return"
           /\ Len(outcome.results) = Len(searches)
           /\ \A i \in 1..Len(searches) :
                \E k \in 1..Len(outcome.results) :
                    /\ outcome.results[k][1] = IdsOf(searches)[i]
                    /\ outcome.results[k][2] =
                        <<EchoRows(payload)[i].displayLongitude,
                          EchoRows(payload)[i].displayLatitude>>

\* the non-empty values among address, city and state of a search, in that
\* order, joined with ", "
SearchText(search) ==
    Join(SelectSeq(<<search.address, search.city, search.state>>, Truthy))

\* C19, as claimed: the document submitted is the header row (recId,
\* searchText, country) and then one row of 3 fields per search, in input
\* order: the id, the search text, which is the non-empty values among
\* address, city and state joined with ", ", and the country; an absent
\* country and an all-empty address give an empty field.
C19_CsvRowsHoldTheSearchTexts ==
    n_submit = 1
        => /\ Len(payload) = Len(searches) + 1
           /\ payload[1] = <<"recId", "searchText", "country">>
           /\ \A i \in 1..Len(searches) :
                /\ Len(payload[i + 1]) = 3
                /\ payload[i + 1][1] = ToString(searches[i].id)
                /\ payload[i + 1][2] = SearchText(searches[i])
                /\ payload[i + 1][3] =
                    IF Truthy(searches[i].country) THEN searches[i].country
                    ELSE ""

(***************************************************************************)
(* The claim about the rows of a results file (under SpecDownload).        *)
(***************************************************************************)
\* the rows of the results files of the archive downloaded
ResultRows ==
    IF ~archive.zip THEN {}
    ELSE UNION {{f.rows[i] : i \in 1..Len(f.rows)} :
                    f \in {archive.files[j] : j \in {k \in 1..Len(archive.files) :
                            EndsWithOut(archive.files[k].name)}}}

\* C5, as claimed: once the archive is downloaded, every row of a results
\* file whose matchLevel is "NOMATCH" has, whatever its sequence number, a
\* result in the list returned: the row's recId, no coordinates, empty
\* metadata.
C5_NoMatchRowGivesEmptyResult ==
    n_download = 1
        => \A row \in {r \in ResultRows : r.matchLevel = "NOMATCH"} :
            /\ outcome.kind = "return"
            /\ \E k \in 1..Len(outcome.results) :
                outcome.results[k] = <<row.recId, <<>>, EmptyMeta>>

\* C12, as claimed: once the archive is downloaded, every row of a results
\* file whose matchLevel is "FAILED" has, whatever its sequence number and
\* its other fields, a result in the list returned: the row's recId, no
\* coordinates, and the error marker "Bulk geocoder failed".
C12_FailedRowGivesErrorResult ==
    n_download = 1
        => \A row \in {r \in ResultRows : r.matchLevel = "FAILED"} :
            /\ outcome.kind = "return"
            /\ \E k \in 1..Len(outcome.results) :
                outcome.results[k] =
                    <<row.recId, <<>>, ErrorMeta("Bulk geocoder failed")>>

\* the results of the first-candidate rows among rows, in order, each as
\* the row branch builds it
RECURSIVE TopCandidates(_)
TopCandidates(rows) ==
    IF rows = <<>> THEN <<>>
    ELSE (IF Head(rows).SeqNumber = "1" THEN RowResults(Head(rows)).list
          ELSE <<>>) \o TopCandidates(Tail(rows))

\* the archive is one results file, its rows are first candidates and
\* later candidates that are neither NOMATCH nor FAILED, and none of them
\* has a relevance that is no number
OnlyCandidateRows ==
    /\ archive.zip
    /\ Len(archive.files) = 1
    /\ EndsWithOut(archive.files[1].name)
    /\ \A row \in ResultRows :
        /\ FloatError(row.relevance) = ""
        /\ row.SeqNumber # "1" => row.matchLevel \notin {"NOMATCH", "FAILED"}
    /\ \E row \in ResultRows : row.SeqNumber # "1"

\* C13, as claimed: when the results file holds first candidates and later
\* candidates that are neither NOMATCH nor FAILED, the call raises nothing
\* and returns the results of the first candidates alone, each as it is
\* without the later candidates.
C13_LaterCandidatesAreIgnored ==
    (n_download = 1 /\ OnlyCandidateRows)
        => /\ outcome.kind = "return"
           /\ outcome.results = TopCandidates(archive.files[1].rows)

(***************************************************************************)
(* The claim about the costing of a route request (under SpecRoute).       *)
(***************************************************************************)
\* the options ask for the shortest route / do not mention it
AsksShortest ==
    /\ \E i \in 1..Len(options) : options[i] = "mode_type=shortest"
    /\ \A i \in 1..Len(options) : options[i] \in {"mode_type=shortest"}

\* C6, as claimed: a call with mode "car" issues its request with costing
\* "auto_shortest" when the options are mode_type=shortest, and with
\* costing "auto" when there is no option.
C6_CarShortestCosting ==
    (route_pc # "start" /\ mode = "car")
        => /\ AsksShortest
                => n_get = 1 /\ route_request.costing = AUTO_SHORTEST
           /\ options = <<>>
                => n_get = 1 /\ route_request.costing = "auto"

(***************************************************************************)
(* The claim about _serial_geocode (under SpecSerial).                     *)
(***************************************************************************)
\* C8: the call never ends by an exception of geocode_meta; after each
\* search, results holds one entry per search done so far, in order, under
\* the id of its search: the generic error result when geocode_meta raised
\* for that search, and what geocode_meta returned otherwise, whatever
\* happened to the searches before it; the list returned has one entry per
\* search.
C8_SerialFailuresAreIsolated ==
    /\ serial_pc # "raised"
    /\ Len(results) = Len(replies)
    /\ \A k \in 1..Len(results) :
        /\ k <= Len(searches)
        /\ results[k] =
            IF replies[k].raises # ""
            THEN <<searches[k].id, <<>>, ErrorMeta("Error geocoding")>>
            ELSE <<searches[k].id, replies[k].coords, replies[k].meta>>
    /\ serial_pc = "returned" => Len(results) = Len(searches)

\* a call that returned after a search that raised and a later one that
\* was geocoded
C8_Witness ==
    /\ serial_pc = "returned"
    /\ Len(searches) >= 2
    /\ replies[1].raises # ""
    /\ replies[2].raises = ""
    /\ results[2][2] # <<>>

(***************************************************************************)
(* The claims about the reply to a route request (under SpecRoute).        *)
(***************************************************************************)
\* the call got a reply to its GET and has ended
RouteAnswered == n_get = 1 /\ route_pc \in {"returned", "raised"}

\* the explicit empty result: a MapzenRoutingResponse of no shape, no length
\* and no duration
EmptyRoute == MapzenRoutingResponse(PyNone, PyNone, PyNone)

\* a run of the body of the method ends on the reply to its GET
BodyEnds == route_pc = "get" /\ route_pc' # "get"

\* C11, as claimed: a reply of status 200 yields the parsed route, a reply
\* of any client-error status (4xx) yields the explicit empty result and
\* raises nothing, and a reply of any other status raises ServiceException.
C11_ClientErrorsGiveEmptyRoute ==
    [][BodyEnds
        => IF route_response'.status_code = 200
           THEN route_outcome'.kind # SERVICE_EXCEPTION
           ELSE IF route_response'.status_code \in 400..499
               THEN route_pc' = "returned"
                    /\ route_outcome' = RouteReturned(EmptyRoute)
           ELSE route_outcome' = RouteRaised(SERVICE_EXCEPTION)]_vars

\* C11, amended: of each run of the body of the method, a reply of status
\* 200 yields what the parsing of its body gives (for a well-formed body
\* the route, with shape, length and duration), and never a
\* ServiceException; a reply of status 400 returns the explicit empty
\* result and raises nothing; a reply of any other status, the other
\* client-error statuses included, makes the body raise ServiceException,
\* which goes to the qps_retry decorator.
C11_OnlyBadRequestGivesEmptyRoute ==
    [][BodyEnds
        => IF route_response'.status_code = 200
           THEN /\ route_outcome'.kind # SERVICE_EXCEPTION
                /\ route_pc' # "qps_retry"
                /\ route_outcome' # RouteReturned(EmptyRoute)
                /\ route_response'.body = GoodBody
                    => /\ route_pc' = "returned"
                       /\ route_outcome'.kind = "return"
                       /\ route_outcome'.value.type = "MapzenRoutingResponse"
                       /\ PyNone \notin {route_outcome'.value.shape,
                                         route_outcome'.value.length,
                                         route_outcome'.value.duration}
           ELSE IF route_response'.status_code = 400
               THEN route_pc' = "returned"
                    /\ route_outcome' = RouteReturned(EmptyRoute)
           ELSE route_pc' = "qps_retry"
                /\ route_outcome' = RouteRaised(SERVICE_EXCEPTION)]_vars

\* the body has raised ServiceException to the decorator on a client-error
\* reply that is not the bad request
C11_Witness ==
    /\ n_get = 1
    /\ route_pc = "qps_retry"
    /\ route_response.status_code = 404
    /\ route_outcome = RouteRaised(SERVICE_EXCEPTION)

(***************************************************************************)
(* The claims about the request of a routing call (under SpecRoute).       *)
(***************************************************************************)
\* the four modes of the specification
FourModes == {"walk", "car", "public_transport", "bicycle"}

\* the call has done its first step
RouteStarted == route_pc # "start"

\* each option is one key and one value around one '='
KeyValueOptions ==
    \A i \in 1..Len(options) :
        options[i] \in {"mode_type=shortest", "mode_type=fastest"}

\* C15, as claimed: a call with a mode outside the four raises WrongParams
\* and issues no request, for every waypoint list and every option list.
C15_UnknownModeRaisesWrongParams ==
    (RouteStarted /\ mode \notin FourModes)
        => /\ route_pc = "raised"
           /\ route_outcome.kind = WRONG_PARAMS
           /\ n_get = 0

\* C15, amended: a call with a mode outside the four issues no request and
\* raises, for every waypoint list: WrongParams when each option is of the
\* form key=value, and the ValueError of the parsing of the options, which
\* comes first, when one is not.
C15_UnknownModeRaisesBeforeRequest ==
    (RouteStarted /\ mode \notin FourModes)
        => /\ route_pc = "raised"
           /\ n_get = 0
           /\ route_request = NoRequest
           /\ route_outcome.kind =
                IF KeyValueOptions THEN WRONG_PARAMS ELSE VALUE_ERROR

\* a call with an unknown mode and an option list that ended by WrongParams
C15_Witness ==
    /\ mode = "plane"
    /\ options = <<"mode_type=shortest">>
    /\ Len(waypoints) = MaxWaypoints
    /\ route_pc = "raised"
    /\ route_outcome.kind = WRONG_PARAMS

\* the locations of the request issued
Locations == route_request.locations

\* C18: the request of a call with n >= 2 waypoints has n locations, the
\* i-th one with the longitude and the latitude of the i-th waypoint; the
\* first and the last are marked "break" and every other one "through":
\* both of 2 waypoints are "break", and of 4 waypoints exactly the 2nd and
\* the 3rd are "through".
C18_EndsBreakOthersThrough ==
    (n_get = 1 /\ Len(waypoints) >= 2)
        => /\ Len(Locations) = Len(waypoints)
           /\ \A i \in 1..Len(waypoints) :
                /\ Locations[i].lon = ToString(waypoints[i].longitude)
                /\ Locations[i].lat = ToString(waypoints[i].latitude)
                /\ Locations[i].type \in {"break", "through"}
                /\ Locations[i].type = "break" <=> i \in {1, Len(waypoints)}
           /\ Len(waypoints) = 2
                => Locations[1].type = "break" /\ Locations[2].type = "break"
           /\ Len(waypoints) = 4
                => {i \in 1..4 : Locations[i].type = "through"} = {2, 3}

\* a request of 4 waypoints
C18_Witness ==
    /\ n_get = 1
    /\ Len(waypoints) = 4
    /\ Len(Locations) = 4
    /\ Locations[3].type = "through"
    /\ Locations[4].type = "break"

\* the body is JSON and one of the keys that the parsing looks up is not
\* there: 'trip', 'legs' of the trip, or, of the first leg, 'shape',
\* 'summary', 'length' or 'time'
MissingKey(body) ==
    /\ body.json
    /\ \/ body.trip = "absent"
       \/ body.trip = "dict" /\ body.legs = "absent"
       \/ /\ body.trip = "dict"
          /\ body.legs = "list"
          /\ ~(body.shape /\ body.summary /\ body.length /\ body.time)

\* C16: a reply of status 200 whose body misses one of the keys ends the
\* call with MalformedResult; the call returns nothing for it, neither the
\* empty list nor the empty MapzenRoutingResponse.
C16_MissingKeyIsMalformedResult ==
    (RouteAnswered /\ route_response.status_code = 200
        /\ MissingKey(route_response.body))
        => /\ route_pc = "raised"
           /\ route_outcome = RouteRaised(MALFORMED_RESULT)
           /\ route_outcome.kind # "return"

\* a reply whose first leg has its shape and a summary without its time
C16_Witness ==
    /\ RouteAnswered
    /\ route_response.status_code = 200
    /\ route_response.body =
        RouteBody(TRUE, "dict", "list", TRUE, TRUE, TRUE, FALSE)
    /\ route_outcome.kind = MALFORMED_RESULT

(***************************************************************************)
(* The claim about _should_use_batch (under SpecDecide).                   *)
(***************************************************************************)
\* C17: on a geocoder of either class, _should_use_batch returns true for
\* every list of at least 100 searches and false for every shorter one:
\* true for a list of 100, false for a list of 99.
C17_BatchFromHundredSearches ==
    decide_pc = "returned"
        => /\ should_use_batch = (Len(searches) >= 100)
           /\ Len(searches) = 100 => should_use_batch
           /\ Len(searches) = 99 => ~should_use_batch
           /\ ShouldUseBatch(searches) = ShouldUseBatchV7(searches)

\* a call of the V7 class on a list of exactly 100 searches
C17_Witness ==
    /\ decide_pc = "returned"
    /\ variant = HERE_V7
    /\ Len(searches) = 100
    /\ should_use_batch

(***************************************************************************)
(* The claim about the two classes (under SpecTwin).                       *)
(***************************************************************************)
\* the keys of the credential parameters of the two classes
CredentialKeys == {"app_id", "app_code", "apikey"}

\* the parameters of a request that are no credentials
OtherParams(req) == {item \in req.params : item[1] \notin CredentialKeys}

\* the keys of the parameters of a request
ParamKeys(req) == {item[1] : item \in req.params}

\* the last requests of the two calls are the same request but for the
\* base URL and for the credentials among the parameters
RequestsAlike ==
    /\ v7_request.method = request.method
    /\ v7_request.data = request.data
    /\ Len(v7_request.url) = Len(request.url)
    /\ OtherParams(v7_request) = OtherParams(request)
    /\ request.method # "none"
        => /\ Tail(v7_request.url) = Tail(request.url)
           /\ Head(request.url) = "https://batch.geocoder.api.here.com/6.2/jobs"
           /\ Head(v7_request.url) =
                "https://batch.geocoder.ls.hereapi.com/6.2/jobs"
           /\ ParamKeys(request) \cap CredentialKeys = {"app_id", "app_code"}
           /\ ParamKeys(v7_request) \cap CredentialKeys = {"apikey"}

\* the step the V7 call takes next is the step the other call took last
SameStepNext ==
    \/ event = "submit" /\ v7_pc = "send_batch"
    \/ event = "status" /\ v7_pc = "job_status"
    \/ event = "sleep" /\ v7_pc = "sleep"
    \/ event = "download" /\ v7_pc = "download_results"

\* C21: a HereMapsBulkGeocoder and a HereMapsBulkGeocoderV7 given the same
\* searches and the same replies take the same steps (submit, status,
\* sleep, download) one after the other, hold the same locals after each,
\* and end alike, with the same result list or the same failure; the
\* requests they issue differ in the base URL and in the credential
\* parameters and in nothing else.
C21_VariantsBehaveAlike ==
    /\ InStep
        => /\ v7_pc = pc
           /\ v7_event = event
           /\ v7_outcome = outcome
           /\ v7_payload = payload
           /\ v7_request_id = request_id
           /\ v7_last_processed = last_processed
           /\ v7_stalled_retries = stalled_retries
           /\ v7_job_info = job_info
           /\ v7_sleep_s = sleep_s
           /\ RequestsAlike
    /\ ~InStep => SameStepNext

\* both calls ended by the stall error, after as many status GETs
C21_Witness ==
    /\ InStep
    /\ outcome.kind = STALL_ERROR
    /\ v7_outcome.kind = STALL_ERROR
    /\ v7_pc = "raised"
    /\ v7_request.url = <<V7_BATCH_URL, REQUEST_ID>>

====
